---- MODULE Spec2Model ----
(***************************************************************************)
(* Model of Aman50/workout-locator (src/script.js): the App object, its    *)
(* two parallel arrays (workouts, workoutMarkers), the rendered list, the  *)
(* localStorage blob kept under the key 'workouts', and the handlers that  *)
(* mutate them.  One action per handler / callback; a handler that raises  *)
(* keeps every assignment it made before the raise.  The form's hidden     *)
(* class and the text left in its fields are presentation: the fields are  *)
(* read as inputs of the submit handler.                                   *)
(***************************************************************************)
EXTENDS Integers, Sequences, FiniteSets, TLC

\* ---- bounds of the model ------------------------------------------------
MaxWorkouts == 2        \* longest App.workouts a submit may still extend
MaxId       == 4        \* number of uuid.v4() values handed out
MaxNow      == 2        \* clock readings (half days) the model runs through
MaxClicks   == 1        \* cap on Workout.clicks

\* ---- values -------------------------------------------------------------
Undefined == "undefined"            \* the JavaScript value undefined
Points    == {"p1"}                 \* [lat, lng] pairs a map click can carry
Types     == {"running", "cycling"} \* options of the type <select>

\* Text a user can leave in an input field; "" is a field left empty.
DistanceInputs  == {"abc", "0", "-5", "5", "10"}
DurationInputs  == {"", "30"}
CadenceInputs   == {"abc", "170"}
ElevationInputs == {"abc", "", "-20"}
ExtraInputs(ty) == IF ty = "running" THEN CadenceInputs ELSE ElevationInputs

\* A JavaScript number, kept exact: <<numerator, denominator>> in lowest terms
\* with a positive denominator; <<s, 0>> is +-Infinity and <<0, 0>> is NaN.
NaN == <<0, 0>>

\* A property the object does not have.
Absent == <<>>

RECURSIVE Gcd(_, _)
Gcd(a, b) == IF b = 0 THEN a ELSE Gcd(b, a % b)

Abs(n) == IF n < 0 THEN -n ELSE n

Sgn(n) == IF n < 0 THEN -1 ELSE 1

\* Unary plus on the text of an input field (script.js:138, 142).
ToNumber(s) ==
  CASE s = ""    -> <<0, 1>>
    [] s = "0"   -> <<0, 1>>
    [] s = "-5"  -> <<-5, 1>>
    [] s = "-20" -> <<-20, 1>>
    [] s = "5"   -> <<5, 1>>
    [] s = "10"  -> <<10, 1>>
    [] s = "30"  -> <<30, 1>>
    [] s = "170" -> <<170, 1>>
    [] OTHER     -> NaN

\* The operator / on two numbers.
Divide(x, y) ==
  IF x = NaN \/ y = NaN THEN NaN
  ELSE LET n == x[1] * y[2]
           d == x[2] * y[1]
       IN  IF n = 0 /\ d = 0 THEN NaN
           ELSE IF d = 0 THEN <<Sgn(x[1]) * Sgn(y[1]), 0>>
           ELSE LET g == Gcd(Abs(n), Abs(d))
                IN  <<(Sgn(d) * n) \div g, Abs(d) \div g>>

NumberIsFinite(x) == x[2] # 0

\* Intl.DateTimeFormat month/day of a Date; the clock counts half days.
FormatDate(t) == t \div 2

\* ---- Workout / Running / Cycling ---------------------------------------
calcPace(distance, duration) == Divide(ToNumber(duration), ToNumber(distance))

\* The speed taken per minute: the division by 60 left out.
calcSpeed_perMinute(distance, duration) ==
  Divide(ToNumber(distance), ToNumber(duration))

calcSpeed(distance, duration) ==
  Divide(ToNumber(distance), Divide(ToNumber(duration), <<60, 1>>))

_setDescription(type, date) == <<type, FormatDate(date)>>

\* new Running(coords, distance, duration, cadence) with the id and the date
\* the field initialisers draw (uuid.v4(), new Date()).
Running(id, date, coords, distance, duration, cadence) ==
  [type |-> "running", id |-> id, date |-> date, clicks |-> 0,
   coords |-> coords, distance |-> distance, duration |-> duration,
   cadence |-> cadence, elevationGain |-> Undefined,
   pace |-> calcPace(distance, duration), speed |-> Absent,
   description |-> _setDescription("running", date)]

Cycling(id, date, coords, distance, duration, elevationGain) ==
  [type |-> "cycling", id |-> id, date |-> date, clicks |-> 0,
   coords |-> coords, distance |-> distance, duration |-> duration,
   cadence |-> Undefined, elevationGain |-> elevationGain,
   pace |-> Absent, speed |-> calcSpeed(distance, duration),
   description |-> _setDescription("cycling", date)]

\* The value undefined standing where a workout object is expected.
NoWorkout ==
  [type |-> Undefined, id |-> 0, date |-> 0, clicks |-> 0,
   coords |-> Undefined, distance |-> Undefined, duration |-> Undefined,
   cadence |-> Undefined, elevationGain |-> Undefined,
   pace |-> Absent, speed |-> Absent, description |-> <<>>]


\* ---- state --------------------------------------------------------------
VARIABLES
  workouts,        \* App.workouts
  workoutMarkers,  \* App.workoutMarkers; a marker is the id of the workout
                   \* it was created for
  map,             \* App.#map: Undefined or "map"
  coordinates,     \* App.#coordinates: Undefined or a point
  storage,         \* localStorage item 'workouts'
  list,            \* data-id of the <li> elements after the form, DOM order
  geo,             \* geolocation request: "pending", "success", "error"
  handlers,        \* submit and list-click listeners are registered
  nextId,          \* next value of uuid.v4()
  now,             \* clock read by new Date()
  saved,           \* App.workouts as it was when setLocalStorage last wrote
  hydrated,        \* this App's constructor put an element in App.workouts
  raised,          \* a submit of this App raised after its validation
  last             \* the handler that ran last, how it ended, and whether
                   \* the id it was given matched an activity

vars == <<workouts, workoutMarkers, map, coordinates, storage, list, geo,
          handlers, nextId, now, saved, hydrated, raised, last>>

\* ---- localStorage / JSON ------------------------------------------------
\* JSON.stringify of one element of App.workouts: every own property is
\* written, an undefined property is left out, undefined itself becomes null.
StringifyWorkout(w) ==
  IF w = NoWorkout THEN [NoWorkout EXCEPT !.type = "null"]
  ELSE [type |-> w.type, id |-> w.id, date |-> w.date, clicks |-> w.clicks,
        coords |-> w.coords, distance |-> w.distance, duration |-> w.duration,
        cadence |-> w.cadence, elevationGain |-> w.elevationGain,
        pace |-> IF w.pace # Absent /\ ~NumberIsFinite(w.pace) THEN Absent ELSE w.pace,
        speed |-> IF w.speed # Absent /\ ~NumberIsFinite(w.speed) THEN Absent ELSE w.speed,
        description |-> w.description]

JSONStringify(ws) ==
  [kind |-> "json", recs |-> [i \in 1..Len(ws) |-> StringifyWorkout(ws[i])]]

NoItem == [kind |-> "absent", recs |-> <<>>]

\* Items another page of the same origin may have left under the key.
NotJson == [kind |-> "text", recs |-> <<>>]

ForeignRecord == [NoWorkout EXCEPT !.type = "swimming", !.coords = "p1",
                                   !.distance = "10", !.duration = "30"]

ForeignJson == [kind |-> "json", recs |-> <<ForeignRecord>>]

\* The callback with the ride rebuilt from the record's cadence.
ReviveWorkout_cadenceForRide(rec, id, date) ==
  IF rec.type = "cycling"
    THEN Cycling(id, date, rec.coords, rec.distance, rec.duration, rec.cadence)
  ELSE IF rec.type = "running"
    THEN Running(id, date, rec.coords, rec.distance, rec.duration, rec.cadence)
  ELSE NoWorkout

\* The callback with the stored clicks copied to the rebuilt workout.
ReviveWorkout_keepClicks(rec, id, date) ==
  IF rec.type = "cycling"
    THEN [Cycling(id, date, rec.coords, rec.distance, rec.duration, rec.elevationGain)
            EXCEPT !.clicks = rec.clicks]
  ELSE IF rec.type = "running"
    THEN [Running(id, date, rec.coords, rec.distance, rec.duration, rec.cadence)
            EXCEPT !.clicks = rec.clicks]
  ELSE NoWorkout

\* The callback of workouts.map in getLocalStorage (script.js:224-236).
ReviveWorkout(rec, id, date) ==
  IF rec.type = "cycling"
    THEN Cycling(id, date, rec.coords, rec.distance, rec.duration, rec.elevationGain)
  ELSE IF rec.type = "running"
    THEN Running(id, date, rec.coords, rec.distance, rec.duration, rec.cadence)
  ELSE NoWorkout

\* Number of constructor calls, hence uuid.v4() draws (script.js:13), in
\* recs[1..i]; the draws are numbered in the order they are made.
Revived(recs, i) == Cardinality({j \in 1..i : recs[j].type \in Types})

ReviveAll(recs, firstId, date) ==
  [i \in 1..Len(recs) |-> ReviveWorkout(recs[i], firstId + Revived(recs, i) - 1, date)]

\* ---- rendering ----------------------------------------------------------
Reverse(s) == [i \in 1..Len(s) |-> s[Len(s) + 1 - i]]

\* Length of the longest prefix of ws that a forEach gets through when its
\* callback raises on the elements in Bad.
Through(ws, Bad) ==
  IF \E i \in 1..Len(ws) : ws[i] \in Bad
    THEN (CHOOSE i \in 1..Len(ws) : ws[i] \in Bad /\ \A j \in 1..(i-1) : ws[j] \notin Bad) - 1
    ELSE Len(ws)

Ids(ws) == [i \in 1..Len(ws) |-> ws[i].id]

Range(s) == {s[i] : i \in 1..Len(s)}

\* _renderWorkoutInList reads workout.type: a TypeError on undefined.
ListRaises(ws) == Through(ws, {NoWorkout}) < Len(ws)

\* forEach(_renderWorkoutInList): each <li> goes right after the form.
RenderInList(ws, dom) == Reverse(Ids(SubSeq(ws, 1, Through(ws, {NoWorkout})))) \o dom

\* L.marker(coords).addTo(this.#map) raises a TypeError with no map
\* (undefined.addLayer) and with no coords (undefined.lat); workout.coords
\* raises on an undefined workout.
MarkerRaises(w, m) == m = Undefined \/ w = NoWorkout \/ w.coords = Undefined

\* _renderMarker (script.js:323-335) when nothing raises: the new marker is
\* pushed on workoutMarkers.
_renderMarker(ms, w) == Append(ms, w.id)

\* workouts.forEach(workout => this._renderMarker(workout)) (script.js:115).
RECURSIVE RenderMarkers(_, _)
RenderMarkers(ms, ws) ==
  IF ws = <<>> THEN ms ELSE RenderMarkers(_renderMarker(ms, Head(ws)), Tail(ws))

\* ---- App ----------------------------------------------------------------
\* getLocalStorage (script.js:217-241) on the stored item: JSON.parse raises
\* a SyntaxError on text that is not JSON, the map callback raises on a null
\* record, and the rendering loop raises on an undefined workout.
ParseRaises(item) == item.kind = "text"

MapRaises(item) == item.kind = "json" /\ \E i \in 1..Len(item.recs) : item.recs[i].type = "null"

getLocalStorage(item, id, date) ==
  LET ws == IF item.kind = "json" /\ ~MapRaises(item)
              THEN ReviveAll(item.recs, id, date) ELSE <<>>
  IN  [workouts |-> ws,
       list     |-> RenderInList(ws, <<>>),
       nextId   |-> id + (IF item.kind = "json" /\ ~MapRaises(item)
                            THEN Revived(item.recs, Len(item.recs)) ELSE 0),
       result   |-> IF ParseRaises(item) THEN "SyntaxError"
                    ELSE IF MapRaises(item) \/ ListRaises(ws) THEN "TypeError"
                    ELSE "ok"]

\* new App() (script.js:71-88): the geolocation request is started, the store
\* is hydrated, and the listeners are added only if nothing raised before.
Constructed(item, id, date) ==
  LET h == getLocalStorage(item, id, date)
  IN  [workouts |-> h.workouts, workoutMarkers |-> <<>>, map |-> Undefined,
       coordinates |-> Undefined, list |-> h.list, geo |-> "pending",
       handlers |-> (h.result = "ok"), nextId |-> h.nextId,
       last |-> [op |-> "constructor", result |-> h.result, hit |-> TRUE]]

Init ==
  /\ storage \in {NoItem, NotJson, ForeignJson}
  /\ now = 1
  /\ saved = <<>>
  /\ LET app == Constructed(storage, 1, 1)
     IN  /\ workouts = app.workouts
         /\ workoutMarkers = app.workoutMarkers
         /\ map = app.map
         /\ coordinates = app.coordinates
         /\ list = app.list
         /\ geo = app.geo
         /\ handlers = app.handlers
         /\ nextId = app.nextId
         /\ hydrated = (app.workouts # <<>>)
         /\ raised = FALSE
         /\ last = app.last

\* The page is loaded again: a new App over the same localStorage.
Reload ==
  /\ nextId + Revived(storage.recs, Len(storage.recs)) <= MaxId + 1
  /\ LET app == Constructed(storage, nextId, now)
     IN  /\ workouts' = app.workouts
         /\ workoutMarkers' = app.workoutMarkers
         /\ map' = app.map
         /\ coordinates' = app.coordinates
         /\ list' = app.list
         /\ geo' = app.geo
         /\ handlers' = app.handlers
         /\ nextId' = app.nextId
         /\ hydrated' = (app.workouts # <<>>)
         /\ raised' = FALSE
         /\ last' = app.last
  /\ UNCHANGED <<storage, now, saved>>

\* Time passes.
Tick ==
  /\ now < MaxNow
  /\ now' = now + 1
  /\ UNCHANGED <<workouts, workoutMarkers, map, coordinates, storage, list,
                 geo, handlers, nextId, saved, hydrated, raised, last>>

\* _initMap (script.js:100-117), the geolocation success callback: the map is
\* created and a marker is rendered for each workout until one raises.
_initMap ==
  /\ geo = "pending"
  /\ geo' = "success"
  /\ map' = "map"
  /\ LET n == Through(workouts, {w \in Range(workouts) : MarkerRaises(w, "map")})
     IN  /\ workoutMarkers' = RenderMarkers(workoutMarkers, SubSeq(workouts, 1, n))
         /\ last' = [op |-> "_initMap",
                     result |-> IF n < Len(workouts) THEN "TypeError" ELSE "ok",
                     hit |-> TRUE]
  /\ UNCHANGED <<workouts, coordinates, storage, list, handlers, nextId, now,
                 saved, hydrated, raised>>

\* The geolocation error callback (script.js:94-96) only logs.
GeoError ==
  /\ geo = "pending"
  /\ geo' = "error"
  /\ last' = [op |-> "geoError", result |-> "ok", hit |-> TRUE]
  /\ UNCHANGED <<workouts, workoutMarkers, map, coordinates, storage, list,
                 handlers, nextId, now, saved, hydrated, raised>>

\* _displayForm (script.js:119-126), the map's click listener.
_displayForm(p) ==
  /\ map # Undefined
  /\ coordinates' = p
  /\ last' = [op |-> "_displayForm", result |-> "ok", hit |-> TRUE]
  /\ UNCHANGED <<workouts, workoutMarkers, map, storage, list, geo, handlers,
                 nextId, now, saved, hydrated, raised>>

\* Only the first value (the distance) checked for being a number.
areValidNumbers_firstOnly(values) == NumberIsFinite(ToNumber(values[1]))

\* The two helpers of _submitForm (script.js:137-143).
areValidNumbers(values) ==
  \A i \in 1..Len(values) : NumberIsFinite(ToNumber(values[i]))

arePositiveNumbers_orZero(values) ==
  \A i \in 1..Len(values) : ToNumber(values[i]) # NaN /\ ToNumber(values[i])[1] >= 0

arePositiveNumbers(values) ==
  \A i \in 1..Len(values) : ToNumber(values[i]) # NaN /\ ToNumber(values[i])[1] > 0

\* The fields _submitForm passes to arePositiveNumbers for each type.
MustBePositive(ty, distance, duration, extra) ==
  IF ty = "running" THEN <<distance, duration, extra>> ELSE <<distance, duration>>

\* _submitForm (script.js:133-210). extra is the cadence field for a run and
\* the elevation field for a ride.
_submitForm(ty, distance, duration, extra) ==
  /\ handlers
  /\ IF ~areValidNumbers(<<distance, duration, extra>>)
       THEN /\ last' = [op |-> "_submitForm", result |-> "not valid numbers", hit |-> TRUE]
            /\ UNCHANGED <<workouts, workoutMarkers, map, coordinates, storage,
                           list, geo, nextId, now, saved, handlers, raised>>
     ELSE IF ~arePositiveNumbers(MustBePositive(ty, distance, duration, extra))
       THEN /\ last' = [op |-> "_submitForm", result |-> "not positive numbers", hit |-> TRUE]
            /\ UNCHANGED <<workouts, workoutMarkers, map, coordinates, storage,
                           list, geo, nextId, now, saved, handlers, raised>>
     ELSE /\ Len(workouts) < MaxWorkouts
          /\ nextId <= MaxId
          /\ LET newWorkout ==
                   IF ty = "running"
                     THEN Running(nextId, now, coordinates, distance, duration, extra)
                     ELSE Cycling(nextId, now, coordinates, distance, duration, extra)
             IN  /\ workouts' = Append(workouts, newWorkout)
                 /\ nextId' = nextId + 1
                 /\ IF MarkerRaises(newWorkout, map)
                      THEN /\ last' = [op |-> "_submitForm", result |-> "TypeError", hit |-> TRUE]
                           /\ raised' = TRUE
                           /\ UNCHANGED <<workoutMarkers, storage, list, saved>>
                      ELSE /\ workoutMarkers' = _renderMarker(workoutMarkers, newWorkout)
                           /\ list' = RenderInList(<<newWorkout>>, list)
                           /\ storage' = JSONStringify(workouts')
                           /\ saved' = workouts'
                           /\ last' = [op |-> "_submitForm", result |-> "ok", hit |-> TRUE]
                           /\ UNCHANGED raised
          /\ UNCHANGED <<map, coordinates, geo, now, handlers>>
  /\ UNCHANGED hydrated

\* Array.prototype.findIndex / find on workout.id: position of the first
\* match, 0 for none (findIndex's -1, find's undefined).
FindIndex(ws, id) ==
  IF \E i \in 1..Len(ws) : ws[i].id = id
    THEN CHOOSE i \in 1..Len(ws) : ws[i].id = id /\ \A j \in 1..(i-1) : ws[j].id # id
    ELSE 0

\* The callback reads workout.id: a TypeError on an undefined element that is
\* visited before the search stops.
FindRaises(ws, id) ==
  LET k == FindIndex(ws, id)
  IN  \E i \in 1..(IF k = 0 THEN Len(ws) ELSE k) : ws[i] = NoWorkout

\* Array.prototype.splice(index, 1) with index from findIndex: -1 counts from
\* the end and removes the last element.
Splice(s, k) ==
  IF Len(s) = 0 THEN s
  ELSE IF k = 0 THEN SubSeq(s, 1, Len(s) - 1)
  ELSE IF k > Len(s) THEN s
  ELSE SubSeq(s, 1, k - 1) \o SubSeq(s, k + 1, Len(s))

\* The marker removal taking the first marker whatever the index.
RemoveMarker_first(ms, k) == Tail(ms)

\* workoutMarkers[workoutIndex].remove() and the splice after it, for an
\* index that holds a marker (script.js:355-357).
RemoveMarker(ms, k) == Splice(ms, k)

\* _deleteWorkout (script.js:347-362) on the <li> whose data-id is id.
_deleteWorkout(id) ==
  /\ handlers
  /\ id \in Range(list)
  /\ LET k == FindIndex(workouts, id)
         h == [op |-> "_deleteWorkout", result |-> "TypeError", hit |-> (k # 0)]
     IN  IF FindRaises(workouts, id)
           THEN /\ last' = h
                /\ UNCHANGED <<workouts, workoutMarkers, storage, list, saved>>
         ELSE /\ workouts' = Splice(workouts, k)
              /\ IF k = 0 \/ k > Len(workoutMarkers)
                   THEN /\ last' = h
                        /\ UNCHANGED <<workoutMarkers, storage, list, saved>>
                   ELSE /\ workoutMarkers' = RemoveMarker(workoutMarkers, k)
                        /\ list' = RenderInList(workouts', <<>>)
                        /\ IF ListRaises(workouts')
                             THEN /\ last' = h
                                  /\ UNCHANGED <<storage, saved>>
                             ELSE /\ storage' = JSONStringify(workouts')
                                  /\ saved' = workouts'
                                  /\ last' = [h EXCEPT !.result = "ok"]
  /\ UNCHANGED <<map, coordinates, geo, handlers, nextId, now, hydrated, raised>>

\* _scrollToWorkout (script.js:364-375) on the <li> whose data-id is id:
\* this.#map.setView raises with no map, workout.coords raises with no
\* workout, and the map raises on undefined coords.
_scrollToWorkout(id) ==
  /\ handlers
  /\ id \in Range(list)
  /\ LET k == FindIndex(workouts, id)
     IN  IF FindRaises(workouts, id) \/ map = Undefined \/ k = 0
            \/ workouts[k].coords = Undefined
           THEN /\ last' = [op |-> "_scrollToWorkout", result |-> "TypeError", hit |-> (k # 0)]
                /\ UNCHANGED workouts
           ELSE /\ workouts[k].clicks < MaxClicks
                /\ workouts' = [workouts EXCEPT ![k].clicks = @ + 1]
                /\ last' = [op |-> "_scrollToWorkout", result |-> "ok", hit |-> TRUE]
  /\ UNCHANGED <<workoutMarkers, map, coordinates, storage, list, geo,
                 handlers, nextId, now, saved, hydrated, raised>>

Next ==
  \/ Reload
  \/ Tick
  \/ _initMap
  \/ GeoError
  \/ \E p \in Points : _displayForm(p)
  \/ \E ty \in Types : \E distance \in DistanceInputs : \E duration \in DurationInputs :
       \E extra \in ExtraInputs(ty) : _submitForm(ty, distance, duration, extra)
  \/ \E id \in 1..MaxId : _deleteWorkout(id)
  \/ \E id \in 1..MaxId : _scrollToWorkout(id)

Spec == Init /\ [][Next]_vars

\* One page session at the form: the geolocation callbacks, the clicks on the
\* map and the submits, with no reload and no click on the list.
NextForm ==
  \/ _initMap
  \/ GeoError
  \/ \E p \in Points : _displayForm(p)
  \/ \E ty \in Types : \E distance \in DistanceInputs : \E duration \in DurationInputs :
       \E extra \in ExtraInputs(ty) : _submitForm(ty, distance, duration, extra)

SpecForm == Init /\ [][NextForm]_vars

\* ---- properties ---------------------------------------------------------
\* Marker i is the marker that was created for workout i.
Aligned ==
  /\ Len(workoutMarkers) = Len(workouts)
  /\ \A i \in 1..Len(workouts) : workoutMarkers[i] = workouts[i].id

RemoveAt(s, k) == SubSeq(s, 1, k - 1) \o SubSeq(s, k + 1, Len(s))

\* The stored item is one that setLocalStorage wrote.
WrittenByApp == storage = JSONStringify(saved)

\* C1: in every state reached from a newly constructed App that hydrated
\* nothing, by successful submits and by deletes, the two sequences have the
\* same length and workoutMarkers[i] is the marker created for workouts[i].
C1_Alignment == (~hydrated /\ ~raised) => Aligned

\* C1 witness: such a run has submitted twice and deleted, and an activity
\* with its marker is left.
C1_Witness ==
  /\ ~hydrated /\ ~raised
  /\ last.op = "_deleteWorkout" /\ last.result = "ok"
  /\ Len(workouts) = 1 /\ Len(workoutMarkers) = 1

\* C2: a delete by an id that matches no activity leaves the activity
\* sequence and the marker sequence unchanged.
C2_UnknownIdDeleteChangesNothing ==
  [][(last'.op = "_deleteWorkout" /\ ~last'.hit)
       => UNCHANGED <<workouts, workoutMarkers>>]_vars

\* The inputs C3 says are rejected: distance or duration (or cadence, for a
\* run) non-numeric, zero or negative, or a non-numeric elevation for a ride.
\* A text counts by the number it converts to; an empty field converts to 0.
NotAPositiveNumber(text) ==
  LET n == ToNumber(text) IN n = NaN \/ n[2] = 0 \/ n[1] <= 0

NotANumber(text) == LET n == ToNumber(text) IN n = NaN \/ n[2] = 0

ToBeRejected(ty, distance, duration, extra) ==
  \/ NotAPositiveNumber(distance)
  \/ NotAPositiveNumber(duration)
  \/ ty = "running" /\ NotAPositiveNumber(extra)
  \/ ty = "cycling" /\ NotANumber(extra)

ValidationErrors == {"not valid numbers", "not positive numbers"}

\* C3: a submit with such inputs reports a validation error and leaves
\* App.workouts, App.workoutMarkers and the stored item unchanged: every step
\* either does so or is not a _submitForm on inputs to be rejected.
C3_RejectedSubmitMutatesNothing ==
  [][\/ last'.op # "_submitForm"
     \/ /\ last'.result \in ValidationErrors
        /\ UNCHANGED <<workouts, workoutMarkers, storage>>
     \/ \A ty \in Types : \A distance \in DistanceInputs :
          \A duration \in DurationInputs : \A extra \in ExtraInputs(ty) :
            ~(ToBeRejected(ty, distance, duration, extra)
                /\ _submitForm(ty, distance, duration, extra))]_vars

\* C3 witness: a submit was rejected while the store and the item held an
\* activity.
C3_Witness ==
  /\ last.op = "_submitForm" /\ last.result \in ValidationErrors
  /\ Len(workouts) > 0 /\ Len(workoutMarkers) > 0
  /\ storage.kind = "json" /\ Len(storage.recs) > 0

\* C4: after every successful submit and after every delete of an existing
\* activity has finished, the stored item encodes exactly App.workouts, also
\* before the map is initialised.
C4_PersistenceInSync ==
  (\/ last.op = "_submitForm" /\ last.result = "ok"
   \/ last.op = "_deleteWorkout" /\ last.hit)
    => storage = JSONStringify(workouts)

\* Same kind and same coords, distance, duration, cadence and elevationGain.
SameFields(a, b) ==
  /\ a.type = b.type
  /\ a.coords = b.coords
  /\ a.distance = b.distance
  /\ a.duration = b.duration
  /\ a.cadence = b.cadence
  /\ a.elevationGain = b.elevationGain

\* C5: when the App is constructed over an item that setLocalStorage wrote,
\* App.workouts has as many activities as were saved, and at each position
\* the same kind, coords, distance, duration and cadence or elevationGain.
C5_SequenceRoundTrip ==
  (last.op = "constructor" /\ WrittenByApp)
    => /\ Len(workouts) = Len(saved)
       /\ \A i \in 1..Len(saved) : SameFields(workouts[i], saved[i])

\* C5 witness: a run and a ride, in either order, were saved and loaded.
C5_Witness ==
  /\ last.op = "constructor" /\ WrittenByApp
  /\ Len(saved) = 2 /\ saved[1].type # saved[2].type
  /\ Len(workouts) = 2

\* C6: after save and load every activity has the id and the date it was
\* created with, and the description it had.
C6_IdentityRoundTrip ==
  (last.op = "constructor" /\ WrittenByApp)
    => /\ Len(workouts) = Len(saved)
       /\ \A i \in 1..Len(saved) :
            /\ workouts[i].id = saved[i].id
            /\ workouts[i].date = saved[i].date
            /\ workouts[i].description = saved[i].description

\* C7: when a _deleteWorkout has finished, either the activity and the
\* marker at one index are both gone or neither sequence has changed.
C7_DeleteIsAtomic ==
  [][last'.op = "_deleteWorkout"
       => \/ UNCHANGED <<workouts, workoutMarkers>>
          \/ \E k \in 1..Len(workouts) :
               /\ k <= Len(workoutMarkers)
               /\ workouts' = RemoveAt(workouts, k)
               /\ workoutMarkers' = RemoveAt(workoutMarkers, k)]_vars

\* C8: while no map exists (geolocation failed or has not answered), the
\* startup over no item or over an item the App wrote has completed, and a
\* delete or a focus on an activity shown in the list completes without an
\* error.
C8_DegradedModeIsNotFatal ==
  map = Undefined =>
    /\ (last.op = "constructor" /\ (storage = NoItem \/ WrittenByApp))
         => (last.result = "ok" /\ handlers)
    /\ (last.op \in {"_deleteWorkout", "_scrollToWorkout"} /\ last.hit)
         => last.result = "ok"

\* C9: the marker sequence is empty as long as the geolocation success
\* callback has not run; when _initMap has run in an App whose constructor
\* completed and where no submit has raised an error, it has completed and
\* there is exactly one marker per activity of App.workouts, in the same
\* order, whatever deletes were requested before.
C9_HydrateAndReattach ==
  /\ map = Undefined => workoutMarkers = <<>>
  /\ (last.op = "_initMap" /\ handlers /\ ~raised)
       => (last.result = "ok" /\ Aligned)

\* C10: whatever the item holds (nothing, text that is not JSON, a record of
\* another type), the constructor completes with the listeners registered,
\* and with an empty activity sequence unless setLocalStorage wrote the item.
C10_MalformedBlobIsNoData ==
  last.op = "constructor"
    => /\ last.result = "ok"
       /\ handlers
       /\ (~WrittenByApp => workouts = <<>>)

\* The inputs C11 says are accepted: distance and duration positive, and the
\* cadence positive for a run, the elevation any finite number for a ride.
ToBeAccepted(ty, distance, duration, extra) ==
  /\ ~NotAPositiveNumber(distance)
  /\ ~NotAPositiveNumber(duration)
  /\ IF ty = "running" THEN ~NotAPositiveNumber(extra) ELSE ~NotANumber(extra)

\* w is an activity of kind ty that holds the submitted field values.
Submitted(w, ty, distance, duration, extra) ==
  /\ w.type = ty
  /\ w.distance = distance
  /\ w.duration = duration
  /\ IF ty = "running" THEN w.cadence = extra ELSE w.elevationGain = extra

\* C11: every _submitForm on inputs to be accepted ends without an error and
\* leaves App.workouts as it was with one activity more at the end, of the
\* submitted kind and with the submitted field values.
C11_AcceptedSubmits ==
  [][\/ last'.op # "_submitForm"
     \/ \A ty \in Types : \A distance \in DistanceInputs :
          \A duration \in DurationInputs : \A extra \in ExtraInputs(ty) :
            (ToBeAccepted(ty, distance, duration, extra)
               /\ _submitForm(ty, distance, duration, extra))
              => /\ last'.result = "ok"
                 /\ Len(workouts') = Len(workouts) + 1
                 /\ SubSeq(workouts', 1, Len(workouts)) = workouts
                 /\ Submitted(workouts'[Len(workouts')], ty, distance,
                              duration, extra)]_vars

\* C12: every _scrollToWorkout on the id of an activity of App.workouts adds
\* one to the clicks of that activity and changes nothing else in
\* App.workouts, nothing in App.workoutMarkers and nothing in the stored item.
C12_FocusTouchesOneCounter ==
  [][\/ last'.op # "_scrollToWorkout"
     \/ \A id \in 1..MaxId :
          (FindIndex(workouts, id) # 0 /\ _scrollToWorkout(id))
            => /\ workouts' = [workouts EXCEPT ![FindIndex(workouts, id)].clicks = @ + 1]
               /\ UNCHANGED <<workoutMarkers, storage>>]_vars

\* C13: every _scrollToWorkout on an id that matches no activity of
\* App.workouts ends without an error and changes no part of the state.
C13_UnknownIdFocusIsSilent ==
  [][(last'.op = "_scrollToWorkout" /\ ~last'.hit)
       => /\ last'.result = "ok"
          /\ UNCHANGED <<workouts, workoutMarkers, map, coordinates, storage,
                         list, handlers>>]_vars

\* x = a / b for finite x, a and non-zero finite b, by cross-multiplication.
IsQuotient(x, a, b) ==
  /\ NumberIsFinite(x) /\ NumberIsFinite(a) /\ NumberIsFinite(b) /\ b[1] # 0
  /\ x[1] * a[2] * b[1] = x[2] * a[1] * b[2]

\* Every run has pace = duration / distance and every ride has
\* 60 * distance = speed * duration; distance 10 in 30 minutes is speed 20.
MetricsByFormula ==
  \A i \in 1..Len(workouts) :
    LET w == workouts[i] IN
      /\ w.type = "running" =>
           IsQuotient(w.pace, ToNumber(w.duration), ToNumber(w.distance))
      /\ w.type = "cycling" =>
           /\ IsQuotient(w.speed, <<60 * ToNumber(w.distance)[1], ToNumber(w.distance)[2]>>,
                         ToNumber(w.duration))
           /\ (w.distance = "10" /\ w.duration = "30") => w.speed = <<20, 1>>

\* A step keeps the pace and the speed of every activity that is in
\* App.workouts before and after it; the constructor gives the activity at
\* each position the pace and the speed of the stored record it is built from.
MetricsKept ==
  /\ \A i \in 1..Len(workouts) : \A j \in 1..Len(workouts') :
       (workouts[i] # NoWorkout /\ workouts'[j].id = workouts[i].id)
         => /\ workouts'[j].pace = workouts[i].pace
            /\ workouts'[j].speed = workouts[i].speed
  /\ last'.op = "constructor" =>
       \A i \in 1..Len(workouts') :
         workouts'[i] # NoWorkout
           => /\ workouts'[i].pace = storage.recs[i].pace
              /\ workouts'[i].speed = storage.recs[i].speed

\* C14: in every reachable state the pace of every run and the speed of every
\* ride of App.workouts are the values of the formulas, and no step (submit,
\* delete, focus, reload) changes the pace or the speed of an activity that
\* stays.
C14_DerivedMetrics == []MetricsByFormula /\ [][MetricsKept]_vars

\* C14 witness: a ride of 10 km in 30 minutes with speed 20 and a run of 5 km
\* in 30 minutes with pace 6 are in App.workouts after a reload.
C14_Witness ==
  /\ last.op = "constructor" /\ Len(workouts) = 2
  /\ \E i, j \in 1..2 :
       /\ workouts[i].type = "cycling" /\ workouts[i].distance = "10"
       /\ workouts[i].speed = <<20, 1>>
       /\ workouts[j].type = "running" /\ workouts[j].distance = "5"
       /\ workouts[j].pace = <<6, 1>>

\* The marker sequence ms without the marker created for the workout id.
Without(ms, id) == SelectSeq(ms, LAMBDA m : m # id)

\* The activities of App.workouts stand in the order they were created in
\* (uuid.v4() values are numbered in the order they are drawn).
InInsertionOrder ==
  \A i, j \in 1..Len(workouts) :
    (i < j /\ workouts[i] # NoWorkout /\ workouts[j] # NoWorkout)
      => workouts[i].id < workouts[j].id

\* C15: every _deleteWorkout on the id of an activity of App.workouts removes
\* that activity and the marker created for it and keeps every other activity
\* and marker in its order; App.workouts is always in insertion order.
C15_DeleteRemovesExactlyThat ==
  /\ []InInsertionOrder
  /\ [][\/ last'.op # "_deleteWorkout"
        \/ \A id \in 1..MaxId :
             (FindIndex(workouts, id) # 0 /\ _deleteWorkout(id))
               => /\ workouts' = RemoveAt(workouts, FindIndex(workouts, id))
                  /\ workoutMarkers' = Without(workoutMarkers, id)]_vars

\* One of the fields _submitForm checks (distance, duration, and cadence or
\* elevation) is not a finite number.
SomeNotFinite(ty, distance, duration, extra) ==
  NotANumber(distance) \/ NotANumber(duration) \/ NotANumber(extra)

\* One of the fields that must be positive is zero or negative.
SomeNotPositive(ty, distance, duration, extra) ==
  \E text \in Range(MustBePositive(ty, distance, duration, extra)) :
    ~NotANumber(text) /\ ToNumber(text)[1] <= 0

\* C16: a _submitForm with a checked field that is not a finite number ends
\* with 'not valid numbers', whatever the other fields are; one that ends
\* with 'not positive numbers' had all checked fields finite and a field that
\* must be positive at zero or below.
C16_ValidationErrorPrecedence ==
  [][\/ last'.op # "_submitForm"
     \/ \A ty \in Types : \A distance \in DistanceInputs :
          \A duration \in DurationInputs : \A extra \in ExtraInputs(ty) :
            /\ (SomeNotFinite(ty, distance, duration, extra)
                  /\ last'.result # "not valid numbers")
                 => ~_submitForm(ty, distance, duration, extra)
            /\ (last'.result = "not positive numbers"
                  /\ ~(/\ ~SomeNotFinite(ty, distance, duration, extra)
                       /\ SomeNotPositive(ty, distance, duration, extra)))
                 => ~_submitForm(ty, distance, duration, extra)]_vars

\* C16 witness: with the form shown after a map click, a submit ended with
\* 'not valid numbers'.
C16_Witness ==
  /\ last.op = "_submitForm" /\ last.result = "not valid numbers"
  /\ map # Undefined /\ coordinates # Undefined

\* The ids of the activities of App.workouts.
StoreIds == {w.id : w \in Range(workouts) \ {NoWorkout}}

\* C17: between handlers, the data-id values of the <li> elements are
\* exactly the ids of the activities of App.workouts.
C17_ListShowsTheStore == Range(list) = StoreIds

\* C18: when a _submitForm has finished, by returning or by raising, either
\* one activity was appended to App.workouts, one marker to
\* App.workoutMarkers and the item was written from the new App.workouts, or
\* none of the three has changed.
C18_SubmitIsAllOrNothing ==
  [][last'.op = "_submitForm"
       => \/ UNCHANGED <<workouts, workoutMarkers, storage>>
          \/ /\ Len(workouts') = Len(workouts) + 1
             /\ SubSeq(workouts', 1, Len(workouts)) = workouts
             /\ Len(workoutMarkers') = Len(workoutMarkers) + 1
             /\ SubSeq(workoutMarkers', 1, Len(workoutMarkers)) = workoutMarkers
             /\ storage' = JSONStringify(workouts')]_vars

\* C19: after the constructor has run, every activity of App.workouts has
\* clicks = 0, whatever the clicks of the stored records are.
C19_ClicksDoNotSurviveReload ==
  last.op = "constructor" => \A i \in 1..Len(workouts) : workouts[i].clicks = 0

\* C19 witness: the item holds a record with clicks above 0 and the
\* constructor has rebuilt an activity from it.
C19_Witness ==
  /\ last.op = "constructor" /\ last.result = "ok"
  /\ Len(workouts) = Len(storage.recs)
  /\ \E i \in 1..Len(workouts) :
       storage.recs[i].clicks > 0 /\ workouts[i].clicks = 0

====
